---- MODULE Spec2Model ----
(***************************************************************************)
(* The to-do service of main.py: one process-wide list, all_todos, and the *)
(* five request handlers that read and change it.                          *)
(*                                                                         *)
(* Spec      handles the requests one at a time (each handler is one step).*)
(* SpecConc  runs create_todo and delete_todo on worker threads, one       *)
(*           bytecode-level step of a handler at a time, with no lock, as  *)
(*           main.py declares the handlers (plain def, no synchronisation).*)
(*                                                                         *)
(* An optional value (Python None or a value) is a sequence of length 0 or *)
(* 1: None is <<>>, the value v is <<v>>.                                  *)
(***************************************************************************)
EXTENDS Integers, Sequences, FiniteSets, TLC

VARIABLES
    all_todos,   \* main.py:76 the list of Todo records, in list order
    request,     \* the request handled last: [op, todo_id, first_n, body]
    status,      \* the HTTP status of the response to it (0: none yet)
    returned,    \* the records of the response body, in order
    created,     \* history: every todo_id ever assigned, in order of creation
    nUpdates,    \* history: number of update requests handled
    pc,          \* SpecConc: per thread, the handler position
    local        \* SpecConc: per thread, the handler's local variables

vars == <<all_todos, request, status, returned, created, nUpdates, pc, local>>

seqvars == <<request, status, returned, created, nUpdates>>

concvars == <<pc, local>>

----------------------------------------------------------------------------
(* Bounds of the model *)

\* create requests handled in one run
MaxCreates == 1

\* update requests handled in one run
MaxUpdates == 1

----------------------------------------------------------------------------
(* Data model, main.py:10-72 *)

LOW == 1

MEDIUM == 2

HIGH == 3

Priority == {LOW, MEDIUM, HIGH}

None == <<>>

Some(v) == <<v>>

NameMinLength == 3

NameMaxLength == 100

DescriptionMinLength == 5

DescriptionMaxLength == 512

\* the records built at start-up: range(10)
InitialCount == 10

\* TodoBase / TodoCreate: the field constraints pydantic enforces on a body
TodoCreateValid(todo) ==
    /\ Len(todo.name) >= NameMinLength
    /\ Len(todo.name) <= NameMaxLength
    /\ Len(todo.description) >= DescriptionMinLength
    /\ Len(todo.description) <= DescriptionMaxLength
    /\ todo.priority # None => todo.priority[1] \in Priority

\* TodoUpdate: every field optional, the same constraints when present
TodoUpdateValid(updated_todo) ==
    /\ updated_todo.name # None =>
           /\ Len(updated_todo.name[1]) >= NameMinLength
           /\ Len(updated_todo.name[1]) <= NameMaxLength
    /\ updated_todo.description # None =>
           /\ Len(updated_todo.description[1]) >= DescriptionMinLength
           /\ Len(updated_todo.description[1]) <= DescriptionMaxLength
    /\ updated_todo.priority # None => updated_todo.priority[1] \in Priority

\* the default of TodoBase.priority
DefaultPriority == LOW

\* todo.model_dump() of a validated TodoCreate: the default priority filled in
model_dump(todo) ==
    [name |-> todo.name,
     description |-> todo.description,
     priority |-> IF todo.priority = None THEN DefaultPriority
                  ELSE todo.priority[1]]

\* Todo(todo_id = ..., **fields)
Todo(todo_id, fields) ==
    [todo_id |-> todo_id,
     name |-> fields.name,
     description |-> fields.description,
     priority |-> fields.priority]

----------------------------------------------------------------------------
(* Helpers on the list *)

Ids(todo_list) == {todo_list[i].todo_id : i \in 1..Len(todo_list)}

MaxOf(S, default) == IF S = {} THEN default ELSE CHOOSE m \in S : \A x \in S : x <= m

MinOf(a, b) == IF a < b THEN a ELSE b

\* `for todo in todo_list: if todo.todo_id == todo_id`: the position (from 1)
\* of the first record with that id, 0 when the loop runs to its end
RECURSIVE Scan(_, _, _)
Scan(todo_list, todo_id, i) ==
    IF i > Len(todo_list) THEN 0
    ELSE IF todo_list[i].todo_id = todo_id THEN i
    ELSE Scan(todo_list, todo_id, i + 1)

Find(todo_list, todo_id) == Scan(todo_list, todo_id, 1)

\* list.pop() with the index left out: the last element goes
PopLast(todo_list, index) == SubSeq(todo_list, 1, Len(todo_list) - 1)

\* removal in constant time: the last element is moved into the hole
PopSwap(todo_list, index) ==
    IF index = Len(todo_list) THEN SubSeq(todo_list, 1, Len(todo_list) - 1)
    ELSE [SubSeq(todo_list, 1, Len(todo_list) - 1) EXCEPT ![index] = todo_list[Len(todo_list)]]

\* list.pop(index), index from 1 here: the list without that element
Pop(todo_list, index) ==
    SubSeq(todo_list, 1, index - 1) \o SubSeq(todo_list, index + 1, Len(todo_list))

\* todo_list[:stop] with Python's slice rules: a negative stop counts from the
\* end, and both ends are clamped to the list
SliceTo(todo_list, stop) ==
    LET n == Len(todo_list)
        s == IF stop < 0 THEN (IF stop + n < 0 THEN 0 ELSE stop + n)
             ELSE MinOf(stop, n)
    IN  SubSeq(todo_list, 1, s)

----------------------------------------------------------------------------
(* Start-up, main.py:76-84 *)

\* random.choice(list(Priority)) for each of the records: the draws explored
\* are the one that gives every record LOW and the one that cycles through
\* LOW, MEDIUM, HIGH
PriorityDraws ==
    {[i \in 0..(InitialCount - 1) |-> ((i * stride) % 3) + 1] : stride \in 0..1}

InitialTodos(draw) ==
    [k \in 1..InitialCount |->
        Todo(k - 1, [name |-> "todo" \o ToString(k - 1),
                     description |-> "description" \o ToString(k - 1),
                     priority |-> draw[k - 1]])]

----------------------------------------------------------------------------
(* The handlers as functions of the list: the response and the list after *)

Response(st, body, todo_list) == [status |-> st, body |-> body, todos |-> todo_list]

\* `if first_n:` in place of `if first_n is not None:`
todos_response_truthy(todo_list, first_n) ==
    IF first_n # None /\ first_n[1] # 0
    THEN IF first_n[1] < 0
         THEN [status |-> 400, body |-> <<>>, todos |-> todo_list]
         ELSE [status |-> 200, body |-> SubSeq(todo_list, 1, MinOf(first_n[1], Len(todo_list))),
               todos |-> todo_list]
    ELSE [status |-> 200, body |-> todo_list, todos |-> todo_list]

\* main.py:89-95 todos
todos_response(todo_list, first_n) ==
    IF first_n # None
    THEN IF first_n[1] < 0
         THEN Response(400, <<>>, todo_list)
         ELSE Response(200, SliceTo(todo_list, first_n[1]), todo_list)
    ELSE Response(200, todo_list, todo_list)

\* `all_todos[todo_id]`: the id taken for the position in the list
get_todo_response_by_index(todo_list, todo_id) ==
    IF todo_id >= 0 /\ todo_id < Len(todo_list)
    THEN [status |-> 200, body |-> <<todo_list[todo_id + 1]>>, todos |-> todo_list]
    ELSE [status |-> 404, body |-> <<>>, todos |-> todo_list]

\* main.py:98-103 get_todo
get_todo_response(todo_list, todo_id) ==
    LET i == Find(todo_list, todo_id)
    IN  IF i # 0 THEN Response(200, <<todo_list[i]>>, todo_list)
        ELSE Response(404, <<>>, todo_list)

\* `len(all_todos)` as the next id
new_id_len(todo_list) == Len(todo_list)

\* `max(..., default=0) + 1`: the first id of an empty list is 1
new_id_default_zero(todo_list) == MaxOf(Ids(todo_list), 0) + 1

\* main.py:108 new_id
new_id(todo_list) == MaxOf(Ids(todo_list), -1) + 1

\* main.py:106-111 create_todo
create_todo_response(todo_list, todo) ==
    LET new_todo == Todo(new_id(todo_list), model_dump(todo))
    IN  Response(200, <<new_todo>>, Append(todo_list, new_todo))

\* every field assigned from the body: an omitted priority falls back to the
\* default, the other omitted fields are kept
apply_update_overwrite(todo, updated_todo) ==
    [todo_id |-> todo.todo_id,
     name |-> IF updated_todo.name # None
              THEN updated_todo.name[1] ELSE todo.name,
     description |-> IF updated_todo.description # None
                     THEN updated_todo.description[1] ELSE todo.description,
     priority |-> IF updated_todo.priority # None
                  THEN updated_todo.priority[1] ELSE DefaultPriority]

\* main.py:119-124 the "safe" update of one record
apply_update(todo, updated_todo) ==
    [todo_id |-> todo.todo_id,
     name |-> IF updated_todo.name # None
              THEN updated_todo.name[1] ELSE todo.name,
     description |-> IF updated_todo.description # None
                     THEN updated_todo.description[1] ELSE todo.description,
     priority |-> IF updated_todo.priority # None
                  THEN updated_todo.priority[1] ELSE todo.priority]

\* main.py:114-126 update_todo
update_todo_response(todo_list, todo_id, updated_todo) ==
    LET i == Find(todo_list, todo_id)
    IN  IF i # 0
        THEN LET todo == apply_update(todo_list[i], updated_todo)
             IN  Response(200, <<todo>>, [todo_list EXCEPT ![i] = todo])
        ELSE Response(404, <<>>, todo_list)

\* the position defaults to -1 when no record matches, and pop(-1) runs
\* before the 404 is raised
delete_todo_response_pop_default(todo_list, todo_id) ==
    LET index == Find(todo_list, todo_id)
    IN  IF index # 0
        THEN [status |-> 200, body |-> <<todo_list[index]>>, todos |-> Pop(todo_list, index)]
        ELSE [status |-> 404, body |-> <<>>,
              todos |-> SubSeq(todo_list, 1, Len(todo_list) - 1)]

\* main.py:129-134 delete_todo
delete_todo_response(todo_list, todo_id) ==
    LET index == Find(todo_list, todo_id)
    IN  IF index # 0
        THEN Response(200, <<todo_list[index]>>, Pop(todo_list, index))
        ELSE Response(404, <<>>, todo_list)

----------------------------------------------------------------------------
(* The requests explored *)

Threads == {1, 2}

\* an id no record ever gets within the bounds
AbsentId == 99

\* ids a client asks for: the oldest and the newest record of the list, the
\* id of the preceding request, and an id no record has
RequestIds ==
    (IF Len(all_todos) = 0 THEN {}
     ELSE {all_todos[1].todo_id, all_todos[Len(all_todos)].todo_id})
    \cup {request.todo_id[i] : i \in 1..Len(request.todo_id)}
    \cup {AbsentId}

\* ids a client updates: the oldest record of the list and an id no record has
UpdateIds ==
    (IF Len(all_todos) = 0 THEN {} ELSE {all_todos[1].todo_id}) \cup {AbsentId}

\* bodies of POST /todos/: with and without a priority, and one whose name is
\* too short
CreateBodies ==
    {[name |-> "Buy milk", description |-> "2% milk, 1 gal", priority |-> Some(MEDIUM)],
     [name |-> "Call home", description |-> "before noon", priority |-> None],
     [name |-> "ab", description |-> "too short a name", priority |-> None]}

\* bodies of PATCH /todo/{todo_id}/
UpdateBodies ==
    {[name |-> None, description |-> None, priority |-> Some(HIGH)],
     [name |-> Some("renamed"), description |-> Some("rewritten"), priority |-> None],
     [name |-> None, description |-> None, priority |-> None]}

\* values of the query parameter first_n
FirstNs == {None, Some(-1), Some(0), Some(3)}

Request(op, todo_id, first_n, body) ==
    [op |-> op, todo_id |-> todo_id, first_n |-> first_n, body |-> body]

----------------------------------------------------------------------------
(* Spec: requests handled one at a time *)

Init ==
    /\ \E draw \in PriorityDraws : all_todos = InitialTodos(draw)
    /\ request = Request("none", None, None, None)
    /\ status = 0
    /\ returned = <<>>
    /\ created = [k \in 1..InitialCount |-> k - 1]
    /\ nUpdates = 0
    /\ pc = [t \in Threads |-> "idle"]
    /\ local = [t \in Threads |-> <<>>]

Respond(r) ==
    /\ status' = r.status
    /\ returned' = r.body
    /\ all_todos' = r.todos

todos(first_n) ==
    /\ request' = Request("list", None, first_n, None)
    /\ Respond(todos_response(all_todos, first_n))
    /\ UNCHANGED <<created, nUpdates, concvars>>

get_todo(todo_id) ==
    /\ request' = Request("get", Some(todo_id), None, None)
    /\ Respond(get_todo_response(all_todos, todo_id))
    /\ UNCHANGED <<created, nUpdates, concvars>>

create_todo(todo) ==
    /\ Len(created) < InitialCount + MaxCreates
    /\ request' = Request("create", None, None, Some(todo))
    /\ IF TodoCreateValid(todo)
       THEN /\ Respond(create_todo_response(all_todos, todo))
            /\ created' = Append(created, new_id(all_todos))
       ELSE /\ Respond(Response(422, <<>>, all_todos))
            /\ UNCHANGED created
    /\ UNCHANGED <<nUpdates, concvars>>

update_todo(todo_id, updated_todo) ==
    /\ nUpdates < MaxUpdates
    /\ nUpdates' = nUpdates + 1
    /\ request' = Request("update", Some(todo_id), None, Some(updated_todo))
    /\ IF TodoUpdateValid(updated_todo)
       THEN Respond(update_todo_response(all_todos, todo_id, updated_todo))
       ELSE Respond(Response(422, <<>>, all_todos))
    /\ UNCHANGED <<created, concvars>>

delete_todo(todo_id) ==
    /\ request' = Request("delete", Some(todo_id), None, None)
    /\ Respond(delete_todo_response(all_todos, todo_id))
    /\ UNCHANGED <<created, nUpdates, concvars>>

Next ==
    \/ \E first_n \in FirstNs : todos(first_n)
    \/ \E todo_id \in RequestIds : get_todo(todo_id)
    \/ \E todo \in CreateBodies : create_todo(todo)
    \/ \E todo_id \in UpdateIds, updated_todo \in UpdateBodies :
           update_todo(todo_id, updated_todo)
    \/ \E todo_id \in RequestIds : delete_todo(todo_id)

Spec == Init /\ [][Next]_vars

----------------------------------------------------------------------------
(* Properties of Spec *)

IdsOf(todo_list) == [i \in 1..Len(todo_list) |-> todo_list[i].todo_id]

Distinct(ids) == \A i, j \in 1..Len(ids) : i # j => ids[i] # ids[j]

\* a[i..] can be read off b[j..] from left to right, skipping elements of b
RECURSIVE Embeds(_, _, _, _)
Embeds(a, i, b, j) ==
    IF i > Len(a) THEN TRUE
    ELSE IF j > Len(b) THEN FALSE
    ELSE IF a[i] = b[j] THEN Embeds(a, i + 1, b, j + 1)
    ELSE Embeds(a, i, b, j + 1)

\* the step is the handling of a request of this kind
Handles(op) == request'.op = op

\* C1: in every state reachable from the 10 initial records by requests
\* handled one at a time, no two records of the list have the same todo_id.
C1_UniqueIds == Distinct(IdsOf(all_todos))

\* a create has been handled after a delete had shortened the list
C1_Witness ==
    /\ request.op = "create"
    /\ status = 200
    /\ Len(all_todos) < InitialCount
    /\ Len(all_todos) > 1

\* C2: every valid create succeeds, the id it assigns is one more than the
\* largest todo_id of the list at that moment, 0 when the list is empty, and
\* the new record is appended at the end of the list and is the one returned.
C2_CreateAssignsMaxPlusOne ==
    [][(Handles("create") /\ TodoCreateValid(request'.body[1])) =>
        LET n == Len(all_todos)
        IN  /\ status' = 200
            /\ Len(returned') = 1
            /\ Len(all_todos') = n + 1
            /\ SubSeq(all_todos', 1, n) = all_todos
            /\ all_todos'[n + 1] = returned'[1]
            /\ IF n = 0
               THEN returned'[1].todo_id = 0
               ELSE /\ \E i \in 1..n : returned'[1].todo_id = all_todos[i].todo_id + 1
                    /\ \A i \in 1..n : returned'[1].todo_id > all_todos[i].todo_id]_vars

\* a create has been handled on the empty list
C2_Witness ==
    /\ request.op = "create"
    /\ status = 200
    /\ Len(all_todos) = 1
    /\ returned[1].todo_id = 0

\* C3: over any sequence of create and delete requests, every create returns
\* an id that no earlier record, live or deleted, ever had: the ids assigned
\* since start-up are pairwise different.
C3_NoIdAssignedTwice == Distinct(created)

\* C4: a successful update changes exactly the fields of the record that the
\* body gives (non-null), to the values given; the fields it omits, the
\* todo_id, the position of the record and every other record stay as they are.
C4_UpdateFrame ==
    [][(Handles("update") /\ status' = 200) =>
        LET updated_todo == request'.body[1]
            todo_id == request'.todo_id[1]
        IN  /\ Len(all_todos') = Len(all_todos)
            /\ Len(returned') = 1
            /\ \E i \in 1..Len(all_todos) :
                  /\ all_todos[i].todo_id = todo_id
                  /\ \A j \in 1..Len(all_todos) : j # i => all_todos'[j] = all_todos[j]
                  /\ returned'[1] = all_todos'[i]
                  /\ all_todos'[i].todo_id = todo_id
                  /\ all_todos'[i].name =
                        IF updated_todo.name = None THEN all_todos[i].name
                        ELSE updated_todo.name[1]
                  /\ all_todos'[i].description =
                        IF updated_todo.description = None THEN all_todos[i].description
                        ELSE updated_todo.description[1]
                  /\ all_todos'[i].priority =
                        IF updated_todo.priority = None THEN all_todos[i].priority
                        ELSE updated_todo.priority[1]]_vars

\* an update that gives the priority only has been applied to record 4, once
\* the records before it were deleted
C4_Witness ==
    /\ request.op = "update"
    /\ status = 200
    /\ request.body[1].name = None
    /\ request.body[1].priority = Some(HIGH)
    /\ returned[1].priority = HIGH
    /\ returned[1].name = "todo4"
    /\ returned[1].description = "description4"
    /\ Len(all_todos) > 1

\* C5: for every id X of the list, delete(X) returns the record with id X and
\* shortens the list by exactly one, and the get(X) handled next fails with 404.
C5_DeleteThenGet ==
    [][/\ (Handles("delete") /\ request'.todo_id[1] \in Ids(all_todos)) =>
            /\ status' = 200
            /\ Len(returned') = 1
            /\ returned'[1].todo_id = request'.todo_id[1]
            /\ \E i \in 1..Len(all_todos) : returned'[1] = all_todos[i]
            /\ Len(all_todos') = Len(all_todos) - 1
       /\ (request.op = "delete" /\ status = 200
           /\ Handles("get") /\ request'.todo_id = request.todo_id) =>
            /\ status' = 404
            /\ returned' = <<>>]_vars

\* a get of an id that was assigned and whose record has been deleted has failed
C5_Witness ==
    /\ request.op = "get"
    /\ status = 404
    /\ \E i \in 1..Len(created) : created[i] = request.todo_id[1]

\* C7: get, update and delete of an id no record has fail with 404, list with
\* a negative first_n fails with 400, and a request that fails leaves the
\* list exactly as it was.
C7_FailureLeavesListUnchanged ==
    [][/\ (Handles("get") \/ Handles("delete")
           \/ (Handles("update") /\ TodoUpdateValid(request'.body[1]))) =>
            (request'.todo_id[1] \notin Ids(all_todos) => status' = 404)
       /\ (Handles("list") /\ request'.first_n # None /\ request'.first_n[1] < 0) =>
            status' = 400
       /\ status' # 200 => (all_todos' = all_todos /\ returned' = <<>>)]_vars

\* a delete of an id no record has has failed on a list that holds records
C7_Witness ==
    /\ request.op = "delete"
    /\ status = 404
    /\ Len(all_todos) > 0
    /\ Len(all_todos) < InitialCount

\* C8: on a list of n records, first_n = k >= 0 returns exactly the first
\* min(k, n) records in list order, first_n = k < 0 fails, and listing never
\* changes the list.
C8_ListPrefix ==
    [][Handles("list") =>
        LET n == Len(all_todos)
            first_n == request'.first_n
        IN  /\ all_todos' = all_todos
            /\ (first_n # None /\ first_n[1] >= 0) =>
                  LET m == IF first_n[1] < n THEN first_n[1] ELSE n
                  IN  /\ status' = 200
                      /\ Len(returned') = m
                      /\ \A i \in 1..m : returned'[i] = all_todos[i]
            /\ (first_n # None /\ first_n[1] < 0) => status' # 200]_vars

\* first_n = 3 has been answered from a list of fewer than 3 records
C8_Witness ==
    /\ request.op = "list"
    /\ request.first_n = Some(3)
    /\ status = 200
    /\ Len(all_todos) \in 1..2
    /\ Len(returned) = Len(all_todos)

\* C9: after any sequence of create, update and delete requests the list
\* holds each live record once and in the order of creation, and list with no
\* limit returns exactly that list.
C9_ListInCreationOrder ==
    /\ Distinct(IdsOf(all_todos))
    /\ Embeds(IdsOf(all_todos), 1, created, 1)
    /\ todos_response(all_todos, None).body = all_todos
    /\ (request.op = "list" /\ request.first_n = None) =>
          (status = 200 /\ returned = all_todos)

\* the whole list has been returned after a create, an update and a delete
C9_Witness ==
    /\ request.op = "list"
    /\ request.first_n = None
    /\ Len(created) > InitialCount
    /\ nUpdates > 0
    /\ Len(all_todos) < InitialCount
    /\ Len(all_todos) > 2
    /\ returned = all_todos

\* C10: a valid create returns a record with the assigned id, the name and
\* description of the body and its priority, LOW when it gave none, and the
\* get of the returned todo_id handled next succeeds with an equal record.
C10_CreateThenGet ==
    [][/\ (Handles("create") /\ TodoCreateValid(request'.body[1])) =>
            /\ status' = 200
            /\ Len(returned') = 1
            /\ returned'[1].name = request'.body[1].name
            /\ returned'[1].description = request'.body[1].description
            /\ returned'[1].priority =
                  IF request'.body[1].priority = None THEN LOW
                  ELSE request'.body[1].priority[1]
       /\ (request.op = "create" /\ status = 200 /\ Handles("get")
           /\ request'.todo_id = Some(returned[1].todo_id)) =>
            /\ status' = 200
            /\ returned' = returned]_vars

\* the record of a create that gave no priority has been fetched
C10_Witness ==
    /\ request.op = "get"
    /\ status = 200
    /\ returned[1].name = "Call home"
    /\ returned[1].priority = LOW
    /\ Len(all_todos) < InitialCount

----------------------------------------------------------------------------
(* SpecConc: create_todo and delete_todo on worker threads, no lock.       *)
(* The handlers are plain `def` functions, which the framework runs on a   *)
(* pool of threads; a thread can be preempted between any two bytecodes,   *)
(* so each step below is one access to all_todos.                          *)

\* bodies and ids of the concurrent requests
ConcBodies == {[name |-> "Buy milk", description |-> "2% milk, 1 gal", priority |-> None]}

ConcIds == {0, InitialCount - 1}

Frame(op, todo, todo_id) ==
    [op |-> op, todo |-> todo, todo_id |-> todo_id,
     it |-> 0, acc |-> None, id |-> 0, index |-> 0, status |-> 0, body |-> <<>>]

\* a worker thread picks up POST /todos/
conc_create_todo(t, todo) ==
    /\ pc[t] = "idle"
    /\ pc' = [pc EXCEPT ![t] = "create_max"]
    /\ local' = [local EXCEPT ![t] = Frame("create", Some(todo), None)]
    /\ UNCHANGED <<all_todos, seqvars>>

\* a worker thread picks up DELETE /todo/{todo_id}/
conc_delete_todo(t, todo_id) ==
    /\ pc[t] = "idle"
    /\ pc' = [pc EXCEPT ![t] = "delete_for"]
    /\ local' = [local EXCEPT ![t] = Frame("delete", None, Some(todo_id))]
    /\ UNCHANGED <<all_todos, seqvars>>

\* main.py:108: max() pulls the next element out of the generator over
\* all_todos (the list iterator keeps a position and stops once the position
\* is past the end of the list as it is then); at the end new_id is computed
create_todo_max(t) ==
    /\ pc[t] = "create_max"
    /\ IF local[t].it < Len(all_todos)
       THEN LET id == all_todos[local[t].it + 1].todo_id
            IN  /\ local' = [local EXCEPT
                       ![t].it = @ + 1,
                       ![t].acc = IF @ = None \/ @[1] < id THEN Some(id) ELSE @]
                /\ UNCHANGED pc
       ELSE /\ local' = [local EXCEPT
                   ![t].id = (IF local[t].acc = None THEN -1 ELSE local[t].acc[1]) + 1]
            /\ pc' = [pc EXCEPT ![t] = "create_append"]
    /\ UNCHANGED <<all_todos, seqvars>>

\* main.py:109-111: build the record, append it, return it
create_todo_append(t) ==
    /\ pc[t] = "create_append"
    /\ LET new_todo == Todo(local[t].id, model_dump(local[t].todo[1]))
       IN  /\ all_todos' = Append(all_todos, new_todo)
           /\ local' = [local EXCEPT ![t].status = 200, ![t].body = <<new_todo>>]
    /\ pc' = [pc EXCEPT ![t] = "done"]
    /\ UNCHANGED seqvars

\* main.py:130-131: enumerate() hands out the next element and its index, and
\* the handler compares its todo_id; main.py:134 when the loop ends
delete_todo_for(t) ==
    /\ pc[t] = "delete_for"
    /\ IF local[t].it < Len(all_todos)
       THEN /\ local' = [local EXCEPT ![t].it = @ + 1, ![t].index = local[t].it]
            /\ pc' = [pc EXCEPT ![t] =
                   IF all_todos[local[t].it + 1].todo_id = local[t].todo_id[1]
                   THEN "delete_pop" ELSE "delete_for"]
       ELSE /\ local' = [local EXCEPT ![t].status = 404]
            /\ pc' = [pc EXCEPT ![t] = "done"]
    /\ UNCHANGED <<all_todos, seqvars>>

\* main.py:132-133: all_todos.pop(index) on the list as it is now; an index
\* past the end raises IndexError, which the framework answers with 500
delete_todo_pop(t) ==
    /\ pc[t] = "delete_pop"
    /\ IF local[t].index < Len(all_todos)
       THEN /\ all_todos' = Pop(all_todos, local[t].index + 1)
            /\ local' = [local EXCEPT ![t].status = 200,
                                      ![t].body = <<all_todos[local[t].index + 1]>>]
       ELSE /\ local' = [local EXCEPT ![t].status = 500]
            /\ UNCHANGED all_todos
    /\ pc' = [pc EXCEPT ![t] = "done"]
    /\ UNCHANGED seqvars

NextConc ==
    \/ \E t \in Threads, todo \in ConcBodies : conc_create_todo(t, todo)
    \/ \E t \in Threads, todo_id \in ConcIds : conc_delete_todo(t, todo_id)
    \/ \E t \in Threads : create_todo_max(t)
    \/ \E t \in Threads : create_todo_append(t)
    \/ \E t \in Threads : delete_todo_for(t)
    \/ \E t \in Threads : delete_todo_pop(t)

SpecConc == Init /\ [][NextConc]_vars

\* C6: when requests are handled concurrently each handler has the list to
\* itself, so two overlapping creates never compute the same maximum and no
\* two records of the list have the same todo_id in any interleaving.
C6_ConcurrentUniqueIds == Distinct(IdsOf(all_todos))

====
